---- MODULE Spec2Model ----
(***************************************************************************)
(* Model of the msplot test-network pipeline (create_test_network.py):     *)
(* feature extraction, blank subtraction, MS2 cosine similarity, candidate *)
(* selection and network construction.                                     *)
(*                                                                         *)
(* Units.  m/z values are integers in units of 0.01 (100.0 is 10000, the   *)
(* default alignment tolerance 0.02 is 2).  Intensities are non-negative   *)
(* integers.  Arithmetic is exact: a cosine score dot/(norm1*norm2) is     *)
(* kept as the pair (dot, norm1^2*norm2^2) and compared by cross           *)
(* multiplication, so the model does not show IEEE rounding of sqrt.       *)
(***************************************************************************)
EXTENDS Integers, Sequences, FiniteSets, TLC

VARIABLES
    \* ---- cosine_similarity_ms2 (one call, statement by statement)
    cpc,            \* position inside cosine_similarity_ms2
    spectrum1,      \* first argument: sequence of <<mz, intensity>>
    spectrum2,      \* second argument
    mz_tolerance,   \* third argument
    i, j,           \* the two cursors (0-based, as in the source)
    aligned1,       \* aligned peak list 1: <<2*mz, intensity>>
    aligned2,       \* aligned peak list 2
    merged,         \* number of times the match branch was taken
    dot_product,    \* np.dot(int1, int2)
    norm1_sq,       \* square of np.linalg.norm(int1)
    norm2_sq,       \* square of np.linalg.norm(int2)
    sim,            \* returned value: [num, den2] meaning num / sqrt(den2)
    \* ---- main and create_network
    pc,                     \* position in main / around the create_network call
    argv_num_nodes,         \* --num-nodes as given on the command line
    args_num_nodes,         \* args.num_nodes
    features,               \* feature table: sequence of [fid, mz] in dict order
    ms2_spectra,            \* fragment table: function fid -> spectrum
    call_num_nodes,         \* create_network's num_nodes argument as passed
    similarity_threshold,   \* [num, den] meaning num / den
    max_mz,
    num_nodes,              \* create_network's num_nodes at its return
    feature_list,           \* the candidate pool, ascending m/z
    G,                      \* the thresholded candidate graph [nodes, edges]
    selected_connected,
    selected_singletons,
    selected_nodes,
    network,                \* the returned graph [nodes, edges]
    network_features,       \* the returned feature table
    exported,               \* whether main reached the exporters
    \* ---- extract_features_from_mzml (one run, spectrum by spectrum); its
    \* two tables are the variables features and ms2_spectra above
    epc,                    \* position inside extract_features_from_mzml
    run,                    \* the spectra the reader yields, in stream order
    is_blank,               \* the is_blank argument
    pos,                    \* number of spectra taken from the reader
    feature_counter,
    ms2_count,
    \* ---- blank_subtraction (one call, sample feature by sample feature)
    bpc,                    \* position inside blank_subtraction
    sample_features,        \* sequence of feature records in dict order
    blank_features,
    intensity_ratio_threshold,
    bpos,                   \* number of sample features handled
    filtered,               \* the returned table
    removed,
    \* ---- the similarity-matrix loops of create_network, pair by pair
    mpc,                    \* position around the double loop
    similarity_matrix,      \* function on (1..n) \X (1..n)
    scored                  \* the pairs <<a, b>>, a < b, already evaluated

cosVars == <<cpc, spectrum1, spectrum2, mz_tolerance, i, j, aligned1, aligned2,
             merged, dot_product, norm1_sq, norm2_sq, sim>>

netVars == <<pc, argv_num_nodes, args_num_nodes, features, ms2_spectra, call_num_nodes,
             similarity_threshold, max_mz, num_nodes, feature_list, G,
             selected_connected, selected_singletons, selected_nodes, network,
             network_features, exported>>

exVars == <<epc, run, is_blank, pos, feature_counter, ms2_count>>

blVars == <<bpc, sample_features, blank_features, intensity_ratio_threshold, bpos,
            filtered, removed>>

smVars == <<mpc, similarity_matrix, scored>>

stageVars == <<exVars, blVars, smVars>>

vars == <<cosVars, netVars, stageVars>>

----------------------------------------------------------------------------
(* Bounds of the model *)

MaxLen == 2             \* longest fragment spectrum drawn for one cosine call

----------------------------------------------------------------------------
(* Program constants *)

DefaultMzTolerance == 2 \* mz_tolerance=0.02, in units of 0.01

----------------------------------------------------------------------------
(* Helpers *)

Abs(x) == IF x < 0 THEN 0 - x ELSE x

Min(x, y) == IF x <= y THEN x ELSE y

Max(x, y) == IF x >= y THEN x ELSE y

\* e, with v evaluated first: keeps the evaluation of a left-to-right fold shallow
After(v, e) == IF v = v THEN e ELSE e

RECURSIVE SumSeq(_)
SumSeq(s) == IF s = <<>> THEN 0 ELSE Head(s) + SumSeq(Tail(s))

\* [x[1] for x in aligned]
Intensities(aligned) == [k \in 1..Len(aligned) |-> aligned[k][2]]

\* np.dot(v1, v2) for two vectors of the same length
Dot(v1, v2) == SumSeq([k \in 1..Len(v1) |-> v1[k] * v2[k]])

\* np.linalg.norm(v) squared
NormSq(v) == Dot(v, v)

\* The float 0.0 returned by the early exits
ZeroScore == [num |-> 0, den2 |-> 1]

\* dot_product / (norm1 * norm2), kept exact
MakeScore(d, n1sq, n2sq) == [num |-> d, den2 |-> n1sq * n2sq]

\* score == 1.0 in exact arithmetic (num >= 0 since intensities are >= 0)
ScoreIsOne(s) == s.num * s.num = s.den2

\* score == 0.0
ScoreIsZero(s) == s.num = 0

----------------------------------------------------------------------------
(* cosine_similarity_ms2: the alignment loops as step operators.  A loop   *)
(* state is [i, j, a1, a2, merged].                                        *)

\* if not spectrum1 or not spectrum2
EitherEmpty(s1, s2) == s1 = <<>> \/ s2 = <<>>

\* while i < len(spectrum1) and j < len(spectrum2)
MergeCond(s1, s2, st) == st.i < Len(s1) /\ st.j < Len(s2)

\* variants of the match test: the difference taken without abs, and a strict test
PeaksMatchNoAbs(mz1, mz2, tol) == mz1 - mz2 <= tol

PeaksMatchStrict(mz1, mz2, tol) == Abs(mz1 - mz2) < tol

\* if abs(mz1 - mz2) <= mz_tolerance
PeaksMatch(mz1, mz2, tol) == Abs(mz1 - mz2) <= tol

\* which branch one iteration of the merge loop takes
MergeBranch(s1, s2, tol, st) ==
    LET mz1 == s1[st.i + 1][1]
        mz2 == s2[st.j + 1][1]
    IN  IF PeaksMatch(mz1, mz2, tol) THEN "match"
        ELSE IF mz1 < mz2 THEN "left"
        ELSE "right"

\* one iteration of the merge loop
MergeStep(s1, s2, tol, st) ==
    LET p1 == s1[st.i + 1]
        p2 == s2[st.j + 1]
        br == MergeBranch(s1, s2, tol, st)
    IN  CASE br = "match" ->
                [i |-> st.i + 1, j |-> st.j + 1,
                 a1 |-> Append(st.a1, <<p1[1] + p2[1], p1[2]>>),
                 a2 |-> Append(st.a2, <<p1[1] + p2[1], p2[2]>>),
                 merged |-> st.merged + 1]
          [] br = "left" ->
                [i |-> st.i + 1, j |-> st.j,
                 a1 |-> Append(st.a1, <<2 * p1[1], p1[2]>>),
                 a2 |-> Append(st.a2, <<2 * p1[1], 0>>),
                 merged |-> st.merged]
          [] OTHER ->
                [i |-> st.i, j |-> st.j + 1,
                 a1 |-> Append(st.a1, <<2 * p2[1], 0>>),
                 a2 |-> Append(st.a2, <<2 * p2[1], p2[2]>>),
                 merged |-> st.merged]

\* variant of the first tail loop that forgets the zero on the other side
Tail1StepNoPad(s1, st) ==
    LET p1 == s1[st.i + 1]
    IN  [st EXCEPT !.i = st.i + 1,
                   !.a1 = Append(st.a1, <<2 * p1[1], p1[2]>>)]

\* one iteration of "while i < len(spectrum1)"
Tail1Step(s1, st) ==
    LET p1 == s1[st.i + 1]
    IN  [st EXCEPT !.i = st.i + 1,
                   !.a1 = Append(st.a1, <<2 * p1[1], p1[2]>>),
                   !.a2 = Append(st.a2, <<2 * p1[1], 0>>)]

\* one iteration of "while j < len(spectrum2)"
Tail2Step(s2, st) ==
    LET p2 == s2[st.j + 1]
    IN  [st EXCEPT !.j = st.j + 1,
                   !.a1 = Append(st.a1, <<2 * p2[1], 0>>),
                   !.a2 = Append(st.a2, <<2 * p2[1], p2[2]>>)]

\* variant of the zero-norm test that looks at the first norm only
ZeroNormFirstOnly(n1sq, n2sq) == n1sq = 0

\* if norm1 == 0 or norm2 == 0
ZeroNorm(n1sq, n2sq) == n1sq = 0 \/ n2sq = 0

RECURSIVE MergeLoop(_, _, _, _)
MergeLoop(s1, s2, tol, st) ==
    IF MergeCond(s1, s2, st) THEN MergeLoop(s1, s2, tol, MergeStep(s1, s2, tol, st))
    ELSE st

RECURSIVE Tail1Loop(_, _)
Tail1Loop(s1, st) ==
    IF st.i < Len(s1) THEN Tail1Loop(s1, Tail1Step(s1, st)) ELSE st

RECURSIVE Tail2Loop(_, _)
Tail2Loop(s2, st) ==
    IF st.j < Len(s2) THEN Tail2Loop(s2, Tail2Step(s2, st)) ELSE st

AlignStart == [i |-> 0, j |-> 0, a1 |-> <<>>, a2 |-> <<>>, merged |-> 0]

\* the aligned lists after the three loops
Align(s1, s2, tol) == Tail2Loop(s2, Tail1Loop(s1, MergeLoop(s1, s2, tol, AlignStart)))

\* cosine_similarity_ms2 as a function of its arguments
cosine_similarity_ms2(s1, s2, tol) ==
    IF EitherEmpty(s1, s2) THEN ZeroScore
    ELSE LET al == Align(s1, s2, tol)
             int1 == Intensities(al.a1)
             int2 == Intensities(al.a2)
         IN  IF ZeroNorm(NormSq(int1), NormSq(int2)) THEN ZeroScore
             ELSE MakeScore(Dot(int1, int2), NormSq(int1), NormSq(int2))

----------------------------------------------------------------------------
(* create_network: its statements as operators *)

\* lst[:n] for n >= 0
Take(lst, n) == SubSeq(lst, 1, Min(n, Len(lst)))

SeqToSet(lst) == {lst[k] : k \in 1..Len(lst)}

\* sim >= similarity_threshold, both non-negative, by cross multiplication
ScoreGEStrict(s, thr) == s.num * s.num * thr.den * thr.den > thr.num * thr.num * s.den2

ScoreGE(s, thr) == s.num * s.num * thr.den * thr.den >= thr.num * thr.num * s.den2

\* {fid: feat for fid, feat in features.items() if fid in ms2_spectra}
FeaturesWithMs2All(feats, ms2) == SelectSeq(feats, LAMBDA f : f.fid \in DOMAIN ms2)

\* variant of the m/z filter: a feature at exactly max_mz is dropped
FeaturesWithMs2Below(feats, ms2, maxmz) ==
    SelectSeq(FeaturesWithMs2All(feats, ms2), LAMBDA f : f.mz < maxmz)

\* {fid: feat ... if feat.get('mz', float('inf')) <= max_mz}
FeaturesWithMs2(feats, ms2, maxmz) ==
    SelectSeq(FeaturesWithMs2All(feats, ms2), LAMBDA f : f.mz <= maxmz)

\* variant of the clamp that keeps the requested count
ClampNumNodesNone(n, p) == n

\* if len(features_with_ms2) < num_nodes: num_nodes = len(features_with_ms2)
ClampNumNodes(n, p) == IF p < n THEN p ELSE n

\* sorted(..., key=mz): a stable sort, equal keys keep the table's order.
\* Insertion sort: each element goes behind the elements of the sorted
\* prefix whose key is not larger.  (Ranges are folded left to right by
\* halving, which keeps the evaluation shallow.)
InsertByMz(sorted, f) ==
    SelectSeq(sorted, LAMBDA x : x.mz <= f.mz) \o <<f>>
        \o SelectSeq(sorted, LAMBDA x : x.mz > f.mz)

RECURSIVE SortByMzRange(_, _, _, _)
SortByMzRange(acc, lst, lo, hi) ==
    IF lo > hi THEN acc
    ELSE IF lo = hi THEN InsertByMz(acc, lst[lo])
    ELSE LET mid == (lo + hi) \div 2
             left == SortByMzRange(acc, lst, lo, mid)
         IN  After(left, SortByMzRange(left, lst, mid + 1, hi))

SortByMz(lst) == SortByMzRange(<<>>, lst, 1, Len(lst))

\* variant of the candidate pool: the first 2*num_nodes features in table order
FeatureListUnsorted(fwm, n) ==
    LET cut == Take(fwm, n * 2)
    IN  [k \in 1..Len(cut) |-> cut[k].fid]

\* feature_list = [fid for fid, _ in sorted_features[:num_nodes*2]]
FeatureList(fwm, n) ==
    LET sorted_features == SortByMz(fwm)
        cut == Take(sorted_features, n * 2)
    IN  [k \in 1..Len(cut) |-> cut[k].fid]

\* similarity_matrix after the double loop: cell [a, b], 1-based
SimilarityMatrix(fl, ms2) ==
    [a \in 1..Len(fl), b \in 1..Len(fl) |->
        IF a < b THEN cosine_similarity_ms2(ms2[fl[a]], ms2[fl[b]], DefaultMzTolerance)
        ELSE IF b < a THEN cosine_similarity_ms2(ms2[fl[b]], ms2[fl[a]], DefaultMzTolerance)
        ELSE ZeroScore]

EmptyGraph == [nodes |-> <<>>, edges |-> <<>>]

\* G.add_node(x): nodes keep their insertion order
AddNode(g, x) ==
    IF x \in SeqToSet(g.nodes) THEN g ELSE [g EXCEPT !.nodes = Append(g.nodes, x)]

\* G.add_edge(u, v, weight=w, cosine=w)
AddEdge(g, u, v, w) ==
    LET g2 == AddNode(AddNode(g, u), v)
    IN  [g2 EXCEPT !.edges = Append(g2.edges, [u |-> u, v |-> v, weight |-> w])]

\* the pairs (a, b), a < b, that pass the threshold test, in the order the
\* double loop visits them: row a holds b = a+1 .. n
RowPairs(m, thr, n, a) ==
    SelectSeq([k \in 1..(n - a) |-> <<a, a + k>>], LAMBDA pr : ScoreGE(m[pr], thr))

RECURSIVE EdgePairsRows(_, _, _, _, _)
EdgePairsRows(m, thr, n, lo, hi) ==
    IF lo > hi THEN <<>>
    ELSE IF lo = hi THEN RowPairs(m, thr, n, lo)
    ELSE LET mid == (lo + hi) \div 2
         IN  EdgePairsRows(m, thr, n, lo, mid) \o EdgePairsRows(m, thr, n, mid + 1, hi)

EdgePairsFrom(m, thr, n, a) == EdgePairsRows(m, thr, n, a, n - 1)

\* the add_edge calls for pairs[lo..hi], left to right
RECURSIVE AddEdges(_, _, _, _, _, _)
AddEdges(g, fl, m, pairs, lo, hi) ==
    IF lo > hi THEN g
    ELSE IF lo = hi
         THEN AddEdge(g, fl[pairs[lo][1]], fl[pairs[lo][2]], m[pairs[lo]])
    ELSE LET mid == (lo + hi) \div 2
             left == AddEdges(g, fl, m, pairs, lo, mid)
         IN  After(left, AddEdges(left, fl, m, pairs, mid + 1, hi))

\* G after "Add edges above threshold"
ThresholdGraph(fl, m, thr) ==
    LET pairs == EdgePairsFrom(m, thr, Len(fl), 1)
    IN  AddEdges(EmptyGraph, fl, m, pairs, 1, Len(pairs))

\* G.degree(x)
Degree(g, x) == Cardinality({k \in 1..Len(g.edges) : g.edges[k].u = x \/ g.edges[k].v = x})

\* [node for node in G.nodes() if G.degree(node) > 0]
ConnectedNodes(g) == SelectSeq(g.nodes, LAMBDA x : Degree(g, x) > 0)

\* variant of the singleton candidates: every pool member
SingletonCandidatesAll(g, fl) == fl

\* [fid for fid in feature_list if fid not in network_node_set or G.degree(fid) == 0]
SingletonCandidates(g, fl) ==
    SelectSeq(fl, LAMBDA x : x \notin SeqToSet(g.nodes) \/ Degree(g, x) = 0)

\* sorted(connected_nodes, key=degree, reverse=True): stable, equal degrees
\* keep the order of connected_nodes
InsertByDegree(g, sorted, x) ==
    SelectSeq(sorted, LAMBDA y : Degree(g, y) >= Degree(g, x)) \o <<x>>
        \o SelectSeq(sorted, LAMBDA y : Degree(g, y) < Degree(g, x))

RECURSIVE SortByDegreeRange(_, _, _, _, _)
SortByDegreeRange(g, acc, lst, lo, hi) ==
    IF lo > hi THEN acc
    ELSE IF lo = hi THEN InsertByDegree(g, acc, lst[lo])
    ELSE LET mid == (lo + hi) \div 2
             left == SortByDegreeRange(g, acc, lst, lo, mid)
         IN  After(left, SortByDegreeRange(g, left, lst, mid + 1, hi))

SortByDegree(g, lst) == SortByDegreeRange(g, <<>>, lst, 1, Len(lst))

\* the largest power of two strictly below k (k >= 2)
RECURSIVE Pow2Below(_, _)
Pow2Below(k, p) == IF 2 * p < k THEN Pow2Below(k, 2 * p) ELSE p

\* int(num_nodes * 0.7) in IEEE double arithmetic.  The double 0.7 is
\* 0.7 - 0.4/2^53, so the product falls short of 7n/10; it rounds back to
\* 7n/10 unless n is a multiple of 10 and the shortfall 4(n/10)/2^53 exceeds
\* half the spacing of doubles below 7n/10 (first at n = 90: int(90*0.7) = 62).
NumConnected(n) ==
    IF n > 0 /\ n % 10 = 0 /\ 4 * (n \div 10) > Pow2Below(7 * (n \div 10), 1)
    THEN (7 * n) \div 10 - 1
    ELSE (7 * n) \div 10

\* variant of the subgraph that keeps an edge when one endpoint is selected
SubgraphAnyEndpoint(g, sel) ==
    [nodes |-> SeqToSet(g.nodes) \cap SeqToSet(sel),
     edges |-> {[ends |-> {e.u, e.v}, weight |-> e.weight] :
                  e \in {d \in SeqToSet(g.edges) :
                            d.u \in SeqToSet(sel) \/ d.v \in SeqToSet(sel)}}]

\* variant of the subgraph that keeps the selected nodes and no edge
SubgraphNoEdges(g, sel) ==
    [nodes |-> SeqToSet(g.nodes) \cap SeqToSet(sel), edges |-> {}]

\* G.subgraph(selected_nodes).copy(): the induced subgraph
Subgraph(g, sel) ==
    [nodes |-> SeqToSet(g.nodes) \cap SeqToSet(sel),
     edges |-> {[ends |-> {e.u, e.v}, weight |-> e.weight] :
                  e \in {d \in SeqToSet(g.edges) :
                            d.u \in SeqToSet(sel) /\ d.v \in SeqToSet(sel)}}]

\* the add_node calls for lst[lo..hi], left to right
RECURSIVE AddNodes(_, _, _, _)
AddNodes(g, lst, lo, hi) ==
    IF lo > hi THEN g
    ELSE IF lo = hi THEN AddNode(g, lst[lo])
    ELSE LET mid == (lo + hi) \div 2
             left == AddNodes(g, lst, lo, mid)
         IN  After(left, AddNodes(left, lst, mid + 1, hi))

NoNetwork == [nodes |-> {}, edges |-> {}]

\* what create_network leaves in its locals and returns; exit is "no_ms2",
\* "no_mz" (the two early returns) or "built"
EarlyReturn(why, n) ==
    [exit |-> why, num_nodes |-> n, feature_list |-> <<>>, G |-> EmptyGraph,
     selected_connected |-> <<>>, selected_singletons |-> <<>>,
     selected_nodes |-> <<>>, network |-> NoNetwork, network_features |-> <<>>]

create_network(feats, ms2, n, thr, maxmz) ==
    LET all == FeaturesWithMs2All(feats, ms2)
        fwm == FeaturesWithMs2(feats, ms2, maxmz)
    IN  IF all = <<>> THEN EarlyReturn("no_ms2", n)
        ELSE IF fwm = <<>> THEN EarlyReturn("no_mz", n)
        ELSE
        LET nn == ClampNumNodes(n, Len(fwm))
            fl == FeatureList(fwm, nn)
            m == SimilarityMatrix(fl, ms2)
            g == ThresholdGraph(fl, m, thr)
            connected_nodes_sorted == SortByDegree(g, ConnectedNodes(g))
            singleton_candidates == SingletonCandidates(g, fl)
            num_connected == NumConnected(nn)
            num_singletons == nn - num_connected
            sc == Take(connected_nodes_sorted, num_connected)
            ss == Take(singleton_candidates, num_singletons)
            g2 == AddNodes(g, ss, 1, Len(ss))
            sel == IF Len(sc \o ss) > nn
                   THEN Take(sc, num_connected) \o Take(ss, nn - num_connected)
                   ELSE sc \o ss
        IN  [exit |-> "built", num_nodes |-> nn, feature_list |-> fl, G |-> g,
             selected_connected |-> sc, selected_singletons |-> ss,
             selected_nodes |-> sel, network |-> Subgraph(g2, sel),
             network_features |-> fwm]

----------------------------------------------------------------------------
(* main: the steps around create_network *)

MinNumNodes == 10       \* max(10, ...)

MaxNumNodes == 100      \* min(100, ...)

DefaultMaxMz == 50000   \* --max-mz default 500.0

DefaultSimilarityThreshold == [num |-> 7, den |-> 10]  \* 0.7

\* variant of the validation that only caps large values
ValidateNumNodesHighOnly(n) == IF n > MaxNumNodes THEN MaxNumNodes ELSE n

\* variant of main's test: a network without edges counts as no network
NetworkHasNoEdges(g) == g.edges = {}

\* if network.number_of_nodes() == 0
NetworkIsEmpty(g) == g.nodes = {}

\* if n < 10 or n > 100: n = max(10, min(100, n))
ValidateNumNodes(n) ==
    IF n < MinNumNodes \/ n > MaxNumNodes
    THEN Max(MinNumNodes, Min(MaxNumNodes, n))
    ELSE n

----------------------------------------------------------------------------
(* Inputs of create_network and main *)

MaxFeat == 4            \* most features in a table given to create_network

MaxMainFeat == 12       \* most features in a small table given to main

None == <<"none">>      \* a feature without a fragment spectrum

SpecA == <<<<10000, 1>>, <<11000, 2>>>>     \* [(100.0, 1000), (110.0, 2000)], in thousands
SpecB == <<<<12000, 1>>>>
SpecD == <<<<12000, 2>>, <<13000, 2>>>>     \* 0.707 with SpecB and with SpecE
SpecE == <<<<13000, 1>>>>                   \* 0 with SpecA and with SpecB

\* the kinds of feature a table is drawn from
FeatureKinds ==
    { [mz |-> 20000, spec |-> SpecA],
      [mz |-> 20000, spec |-> SpecB],
      [mz |-> 50000, spec |-> SpecD],
      [mz |-> 30000, spec |-> SpecE],
      [mz |-> 50000, spec |-> SpecA],
      [mz |-> 10000, spec |-> None] }

CallMaxMz == {30000, DefaultMaxMz}

CallThresholds == {[num |-> 0, den |-> 10], DefaultSimilarityThreshold, [num |-> 10, den |-> 10]}

CallNumNodes == {1, 2, 3, 4, MinNumNodes}

\* the table and fragment table made of a sequence of kinds; fid = position
TableOf(kinds) == [k \in 1..Len(kinds) |-> [fid |-> k, mz |-> kinds[k].mz]]

FragmentsOf(kinds) ==
    [k \in {x \in 1..Len(kinds) : kinds[x].spec # None} |-> kinds[k].spec]

CallTables == UNION {[1..n -> FeatureKinds] : n \in 0..MaxFeat}

\* tables for main: p features in descending m/z order, fragment spectra of
\* one peak shared by groups of g consecutive features (g = 0: no feature has
\* a fragment spectrum)
MainKinds(p, g) ==
    [k \in 1..p |-> [mz |-> 10000 + 100 * (p - k),
                     spec |-> IF g = 0 THEN None
                              ELSE <<<<10000 + 10 * ((k - 1) \div g), 1>>>>]]

MainFeatCounts == (0..MaxMainFeat) \cup {MaxNumNodes + 1, MaxNumNodes + 3}

MainGroups == {0, 1, 2, 3}

MainMaxMz == {5000, DefaultMaxMz}    \* --max-mz 50.0 and the default

MainRequests == {1, 5, 9, 10, 11, 50, 90, 100, 101, 500}

\* no cosine call in progress
cosIdle ==
    /\ cpc = "idle" /\ spectrum1 = <<>> /\ spectrum2 = <<>> /\ mz_tolerance = 0
    /\ i = 0 /\ j = 0 /\ aligned1 = <<>> /\ aligned2 = <<>> /\ merged = 0
    /\ dot_product = 0 /\ norm1_sq = 0 /\ norm2_sq = 0 /\ sim = ZeroScore

\* no extraction, blank subtraction or matrix loop in progress
exIdle ==
    /\ epc = "idle" /\ run = <<>> /\ is_blank = FALSE /\ pos = 0
    /\ feature_counter = 0 /\ ms2_count = 0

blIdle ==
    /\ bpc = "idle" /\ sample_features = <<>> /\ blank_features = <<>>
    /\ intensity_ratio_threshold = 0 /\ bpos = 0 /\ filtered = <<>> /\ removed = 0

smIdle == mpc = "idle" /\ similarity_matrix = <<>> /\ scored = {}

stageIdle == exIdle /\ blIdle /\ smIdle

cnIdle ==
    /\ num_nodes = 0 /\ feature_list = <<>> /\ G = EmptyGraph
    /\ selected_connected = <<>> /\ selected_singletons = <<>>
    /\ selected_nodes = <<>> /\ network = NoNetwork /\ network_features = <<>>
    /\ exported = FALSE

netIdle ==
    /\ pc = "idle" /\ argv_num_nodes = 0 /\ args_num_nodes = 0
    /\ features = <<>> /\ ms2_spectra = <<>> /\ call_num_nodes = 0
    /\ similarity_threshold = DefaultSimilarityThreshold /\ max_mz = DefaultMaxMz
    /\ cnIdle

\* a direct call create_network(features, ms2_spectra, num_nodes, threshold, max_mz)
InitCall ==
    /\ pc = "call"
    /\ \E kinds \in CallTables :
          /\ features = TableOf(kinds)
          /\ ms2_spectra = FragmentsOf(kinds)
    /\ call_num_nodes \in CallNumNodes
    /\ similarity_threshold \in CallThresholds
    /\ max_mz \in CallMaxMz
    /\ argv_num_nodes = 0 /\ args_num_nodes = 0
    /\ cnIdle

\* main after argument parsing, with the tables steps 1-3 hand to step 4
InitMain ==
    /\ pc = "main_validate"
    /\ \E p \in MainFeatCounts, g \in MainGroups :
          /\ features = TableOf(MainKinds(p, g))
          /\ ms2_spectra = FragmentsOf(MainKinds(p, g))
    /\ argv_num_nodes \in MainRequests
    /\ args_num_nodes = argv_num_nodes
    /\ call_num_nodes = 0
    /\ similarity_threshold = DefaultSimilarityThreshold
    /\ max_mz \in MainMaxMz
    /\ cnIdle

Init ==
    /\ cosIdle
    /\ stageIdle
    /\ (InitCall \/ InitMain)

SetReturn(r) ==
    /\ num_nodes' = r.num_nodes
    /\ feature_list' = r.feature_list
    /\ G' = r.G
    /\ selected_connected' = r.selected_connected
    /\ selected_singletons' = r.selected_singletons
    /\ selected_nodes' = r.selected_nodes
    /\ network' = r.network
    /\ network_features' = r.network_features

\* lines 294-412: one call of create_network
CallCreateNetwork ==
    /\ pc = "call"
    /\ LET r == create_network(features, ms2_spectra, call_num_nodes,
                               similarity_threshold, max_mz)
       IN  /\ SetReturn(r)
           /\ pc' = IF r.exit = "built" THEN "returned" ELSE "returned_empty"
    /\ UNCHANGED <<argv_num_nodes, args_num_nodes, features, ms2_spectra,
                   call_num_nodes, similarity_threshold, max_mz, exported>>
    /\ UNCHANGED <<cosVars, stageVars>>

\* lines 679-682: main validates --num-nodes
MainValidateNumNodes ==
    /\ pc = "main_validate"
    /\ args_num_nodes' = ValidateNumNodes(args_num_nodes)
    /\ pc' = "main_network"
    /\ UNCHANGED <<argv_num_nodes, features, ms2_spectra, call_num_nodes,
                   similarity_threshold, max_mz, num_nodes, feature_list, G,
                   selected_connected, selected_singletons, selected_nodes,
                   network, network_features, exported>>
    /\ UNCHANGED <<cosVars, stageVars>>

\* lines 742-748: main calls create_network with args.num_nodes
MainCreateNetwork ==
    /\ pc = "main_network"
    /\ call_num_nodes' = args_num_nodes
    /\ SetReturn(create_network(features, ms2_spectra, args_num_nodes,
                                similarity_threshold, max_mz))
    /\ pc' = "main_check"
    /\ UNCHANGED <<argv_num_nodes, args_num_nodes, features, ms2_spectra,
                   similarity_threshold, max_mz, exported>>
    /\ UNCHANGED <<cosVars, stageVars>>

\* lines 750-752: no node, sys.exit(1)
MainExitNoNetwork ==
    /\ pc = "main_check"
    /\ NetworkIsEmpty(network)
    /\ pc' = "main_exit"
    /\ UNCHANGED <<argv_num_nodes, args_num_nodes, features, ms2_spectra,
                   call_num_nodes, similarity_threshold, max_mz, num_nodes,
                   feature_list, G, selected_connected, selected_singletons,
                   selected_nodes, network, network_features, exported>>
    /\ UNCHANGED <<cosVars, stageVars>>

\* lines 754-791: the exporters run
MainExport ==
    /\ pc = "main_check"
    /\ ~NetworkIsEmpty(network)
    /\ exported' = TRUE
    /\ pc' = "main_done"
    /\ UNCHANGED <<argv_num_nodes, args_num_nodes, features, ms2_spectra,
                   call_num_nodes, similarity_threshold, max_mz, num_nodes,
                   feature_list, G, selected_connected, selected_singletons,
                   selected_nodes, network, network_features>>
    /\ UNCHANGED <<cosVars, stageVars>>

Next ==
    \/ CallCreateNetwork
    \/ MainValidateNumNodes
    \/ MainCreateNetwork
    \/ MainExitNoNetwork
    \/ MainExport

Spec == Init /\ [][Next]_vars

----------------------------------------------------------------------------
(* Inputs of one cosine call *)

CosMz == {10000, 10002, 10004}      \* 100.00, 100.02, 100.04

CosIntensity == {0, 1, 2}

CosTolerances == {0 - 1, 0, DefaultMzTolerance}

\* peak lists sorted by strictly increasing m/z, of length <= MaxLen
SortedByMz(s) == \A k \in 1..(Len(s) - 1) : s[k][1] < s[k + 1][1]

CosSpectra ==
    UNION {{s \in [1..n -> CosMz \X CosIntensity] : SortedByMz(s)} : n \in 0..MaxLen}

InitCos ==
    /\ cpc = "start"
    /\ spectrum1 \in CosSpectra
    /\ spectrum2 \in CosSpectra
    /\ mz_tolerance \in CosTolerances
    /\ i = 0 /\ j = 0 /\ aligned1 = <<>> /\ aligned2 = <<>> /\ merged = 0
    /\ dot_product = 0 /\ norm1_sq = 0 /\ norm2_sq = 0 /\ sim = ZeroScore
    /\ netIdle
    /\ stageIdle

loopState == [i |-> i, j |-> j, a1 |-> aligned1, a2 |-> aligned2, merged |-> merged]

SetLoopState(st) ==
    /\ i' = st.i /\ j' = st.j /\ aligned1' = st.a1 /\ aligned2' = st.a2
    /\ merged' = st.merged

\* lines 56-57: an empty argument returns 0.0
CosReturnEmpty ==
    /\ cpc = "start"
    /\ EitherEmpty(spectrum1, spectrum2)
    /\ sim' = ZeroScore
    /\ cpc' = "done"
    /\ UNCHANGED <<spectrum1, spectrum2, mz_tolerance, i, j, aligned1, aligned2,
                   merged, dot_product, norm1_sq, norm2_sq>>
    /\ UNCHANGED <<netVars, stageVars>>

\* lines 60-63
CosBegin ==
    /\ cpc = "start"
    /\ ~EitherEmpty(spectrum1, spectrum2)
    /\ SetLoopState(AlignStart)
    /\ cpc' = "merge"
    /\ UNCHANGED <<spectrum1, spectrum2, mz_tolerance, dot_product, norm1_sq,
                   norm2_sq, sim>>
    /\ UNCHANGED <<netVars, stageVars>>

\* lines 64-82: one iteration of the merge loop
CosMergeStep ==
    /\ cpc = "merge"
    /\ MergeCond(spectrum1, spectrum2, loopState)
    /\ SetLoopState(MergeStep(spectrum1, spectrum2, mz_tolerance, loopState))
    /\ UNCHANGED <<cpc, spectrum1, spectrum2, mz_tolerance, dot_product, norm1_sq,
                   norm2_sq, sim>>
    /\ UNCHANGED <<netVars, stageVars>>

\* line 64: the loop condition fails
CosMergeExit ==
    /\ cpc = "merge"
    /\ ~MergeCond(spectrum1, spectrum2, loopState)
    /\ cpc' = "tail1"
    /\ UNCHANGED <<spectrum1, spectrum2, mz_tolerance, i, j, aligned1, aligned2,
                   merged, dot_product, norm1_sq, norm2_sq, sim>>
    /\ UNCHANGED <<netVars, stageVars>>

\* lines 85-88
CosTail1Step ==
    /\ cpc = "tail1"
    /\ i < Len(spectrum1)
    /\ SetLoopState(Tail1Step(spectrum1, loopState))
    /\ UNCHANGED <<cpc, spectrum1, spectrum2, mz_tolerance, dot_product, norm1_sq,
                   norm2_sq, sim>>
    /\ UNCHANGED <<netVars, stageVars>>

CosTail1Exit ==
    /\ cpc = "tail1"
    /\ ~(i < Len(spectrum1))
    /\ cpc' = "tail2"
    /\ UNCHANGED <<spectrum1, spectrum2, mz_tolerance, i, j, aligned1, aligned2,
                   merged, dot_product, norm1_sq, norm2_sq, sim>>
    /\ UNCHANGED <<netVars, stageVars>>

\* lines 89-92
CosTail2Step ==
    /\ cpc = "tail2"
    /\ j < Len(spectrum2)
    /\ SetLoopState(Tail2Step(spectrum2, loopState))
    /\ UNCHANGED <<cpc, spectrum1, spectrum2, mz_tolerance, dot_product, norm1_sq,
                   norm2_sq, sim>>
    /\ UNCHANGED <<netVars, stageVars>>

\* lines 89, 95-101: the last loop ends, the vectors and their norms are taken
CosNorms ==
    /\ cpc = "tail2"
    /\ ~(j < Len(spectrum2))
    /\ dot_product' = Dot(Intensities(aligned1), Intensities(aligned2))
    /\ norm1_sq' = NormSq(Intensities(aligned1))
    /\ norm2_sq' = NormSq(Intensities(aligned2))
    /\ cpc' = "norms"
    /\ UNCHANGED <<spectrum1, spectrum2, mz_tolerance, i, j, aligned1, aligned2,
                   merged, sim>>
    /\ UNCHANGED <<netVars, stageVars>>

\* lines 103-104
CosReturnZeroNorm ==
    /\ cpc = "norms"
    /\ ZeroNorm(norm1_sq, norm2_sq)
    /\ sim' = ZeroScore
    /\ cpc' = "done"
    /\ UNCHANGED <<spectrum1, spectrum2, mz_tolerance, i, j, aligned1, aligned2,
                   merged, dot_product, norm1_sq, norm2_sq>>
    /\ UNCHANGED <<netVars, stageVars>>

\* line 106: the division
CosDivide ==
    /\ cpc = "norms"
    /\ ~ZeroNorm(norm1_sq, norm2_sq)
    /\ cpc' = "divide"
    /\ UNCHANGED <<spectrum1, spectrum2, mz_tolerance, i, j, aligned1, aligned2,
                   merged, dot_product, norm1_sq, norm2_sq, sim>>
    /\ UNCHANGED <<netVars, stageVars>>

CosReturnQuotient ==
    /\ cpc = "divide"
    /\ sim' = MakeScore(dot_product, norm1_sq, norm2_sq)
    /\ cpc' = "done"
    /\ UNCHANGED <<spectrum1, spectrum2, mz_tolerance, i, j, aligned1, aligned2,
                   merged, dot_product, norm1_sq, norm2_sq>>
    /\ UNCHANGED <<netVars, stageVars>>

NextCos ==
    \/ CosReturnEmpty
    \/ CosBegin
    \/ CosMergeStep
    \/ CosMergeExit
    \/ CosTail1Step
    \/ CosTail1Exit
    \/ CosTail2Step
    \/ CosNorms
    \/ CosReturnZeroNorm
    \/ CosDivide
    \/ CosReturnQuotient

SpecCos == InitCos /\ [][NextCos]_vars

----------------------------------------------------------------------------
(* blank_subtraction.  In this part m/z is in units of 0.005 and retention *)
(* time in units of 0.05 min, so that differences below and exactly at     *)
(* the two tolerances both occur; a retention time of 0 is "unknown".      *)
(* A feature is [fid, mz, rt, intensity]; a ratio threshold is [num, den]. *)

BlankMzTolerance == 2   \* mz_diff < 0.01
BlankRtTolerance == 2   \* rt_diff < 0.1

DefaultIntensityRatio == [num |-> 3, den |-> 1]     \* intensity_ratio_threshold=3.0

\* variant: the retention-time difference is taken even when one side is 0
RtDiffNoSkip(blank_rt, rt) == Abs(blank_rt - rt)

\* abs(blank_feat['rt'] - rt) if rt and blank_feat['rt'] else 0
RtDiff(blank_rt, rt) == IF rt # 0 /\ blank_rt # 0 THEN Abs(blank_rt - rt) ELSE 0

\* if mz_diff < 0.01 and rt_diff < 0.1
WithinTolerance(blank_feat, feat) ==
    /\ Abs(blank_feat.mz - feat.mz) < BlankMzTolerance
    /\ RtDiff(blank_feat.rt, feat.rt) < BlankRtTolerance

\* variant: a ratio equal to the threshold counts as below it
RatioBelowOrEqual(intensity, blank_intensity, thr) ==
    intensity * thr.den <= thr.num * blank_intensity

\* intensity / blank_intensity < intensity_ratio_threshold, for blank_intensity > 0
RatioBelow(intensity, blank_intensity, thr) ==
    intensity * thr.den < thr.num * blank_intensity

\* the three nested tests of the inner loop: this blank feature sets found_in_blank
SetsFound(blank_feat, feat, thr) ==
    /\ WithinTolerance(blank_feat, feat)
    /\ blank_feat.intensity > 0
    /\ RatioBelow(feat.intensity, blank_feat.intensity, thr)

\* found_in_blank after the inner loop, scanning blanks[k..]; the loop breaks
\* at the first blank feature that sets it
RECURSIVE FoundInBlank(_, _, _, _)
FoundInBlank(feat, blanks, thr, k) ==
    IF k > Len(blanks) THEN FALSE
    ELSE IF SetsFound(blanks[k], feat, thr) THEN TRUE
    ELSE FoundInBlank(feat, blanks, thr, k + 1)

\* the returned table, in the order of sample_features
blank_subtraction(sample, blanks, thr) ==
    SelectSeq(sample, LAMBDA feat : ~FoundInBlank(feat, blanks, thr, 1))

MaxSample == 2          \* most features in a sample table
MaxBlank == 2           \* most features in a blank table

SampleKinds ==
    { [mz |-> 20000, rt |-> 20, intensity |-> 6],
      [mz |-> 20000, rt |-> 20, intensity |-> 4],
      [mz |-> 20000, rt |-> 0,  intensity |-> 6],
      [mz |-> 20000, rt |-> 22, intensity |-> 9] }

BlankKinds ==
    { [mz |-> 20000, rt |-> 20, intensity |-> 2],
      [mz |-> 20000, rt |-> 20, intensity |-> 3],
      [mz |-> 20001, rt |-> 21, intensity |-> 3],
      [mz |-> 20002, rt |-> 20, intensity |-> 3],
      [mz |-> 20000, rt |-> 22, intensity |-> 3],
      [mz |-> 20000, rt |-> 0,  intensity |-> 3],
      [mz |-> 20000, rt |-> 20, intensity |-> 0],
      [mz |-> 20000, rt |-> 20, intensity |-> 0 - 1] }

BlankThresholds == {DefaultIntensityRatio, [num |-> 3, den |-> 2]}

\* a table made of a sequence of kinds; fid = position
FeatureTableOf(kinds) ==
    [k \in 1..Len(kinds) |->
        [fid |-> k, mz |-> kinds[k].mz, rt |-> kinds[k].rt,
         intensity |-> kinds[k].intensity]]

SampleTables == UNION {{FeatureTableOf(s) : s \in [1..n -> SampleKinds]} : n \in 0..MaxSample}

BlankTables == UNION {{FeatureTableOf(s) : s \in [1..n -> BlankKinds]} : n \in 0..MaxBlank}

\* blank_subtraction is called: filtered = {}, removed = 0
InitBlank ==
    /\ bpc = "loop"
    /\ sample_features \in SampleTables
    /\ blank_features \in BlankTables
    /\ intensity_ratio_threshold \in BlankThresholds
    /\ bpos = 0 /\ filtered = <<>> /\ removed = 0
    /\ cosIdle /\ netIdle /\ exIdle /\ smIdle

\* lines 266-285: the next sample feature is found in the blank
BlankRemove ==
    /\ bpc = "loop"
    /\ bpos < Len(sample_features)
    /\ FoundInBlank(sample_features[bpos + 1], blank_features,
                    intensity_ratio_threshold, 1)
    /\ removed' = removed + 1
    /\ bpos' = bpos + 1
    /\ UNCHANGED <<bpc, sample_features, blank_features, intensity_ratio_threshold,
                   filtered>>
    /\ UNCHANGED <<cosVars, netVars, exVars, smVars>>

\* lines 266-288: the next sample feature is not found and is kept
BlankKeep ==
    /\ bpc = "loop"
    /\ bpos < Len(sample_features)
    /\ ~FoundInBlank(sample_features[bpos + 1], blank_features,
                     intensity_ratio_threshold, 1)
    /\ filtered' = Append(filtered, sample_features[bpos + 1])
    /\ bpos' = bpos + 1
    /\ UNCHANGED <<bpc, sample_features, blank_features, intensity_ratio_threshold,
                   removed>>
    /\ UNCHANGED <<cosVars, netVars, exVars, smVars>>

\* line 291
BlankReturn ==
    /\ bpc = "loop"
    /\ bpos = Len(sample_features)
    /\ bpc' = "returned"
    /\ UNCHANGED <<sample_features, blank_features, intensity_ratio_threshold, bpos,
                   filtered, removed>>
    /\ UNCHANGED <<cosVars, netVars, exVars, smVars>>

NextBlank ==
    \/ BlankRemove
    \/ BlankKeep
    \/ BlankReturn

SpecBlank == InitBlank /\ [][NextBlank]_vars

----------------------------------------------------------------------------
(* extract_features_from_mzml.  A spectrum is [ms_level, has_rt, rt,       *)
(* probe, precursor, read, peaks]: has_rt tells whether lines 130-134 end  *)
(* with a retention time rt; probe is how the probing of lines 160-195     *)
(* ends, "value" with precursor_mz = precursor, "none" with None, or       *)
(* "raises" with one of the exceptions line 196 catches; read is what      *)
(* spectrum.peaks('raw') does, "value" giving the sequence peaks of        *)
(* entries <<mz>> or <<mz, intensity>>, "none" giving None, or "raises".   *)
(* A feature is [fid, mz, rt, intensity, is_blank]; fid is <<"ms1", n>>    *)
(* for feature_<stem>_<n> and <<"ms2", n>> for feature_<stem>_ms2_<n>.     *)
(* m/z is in units of 0.01.                                                *)

NoFeature == <<"none", 0>>

MzMatchTolerance == 10  \* mz_tolerance = 0.1 in the precursor search

\* key=lambda x: x[1] if len(x) > 1 else 0
PeakKey(p) == IF Len(p) > 1 THEN p[2] ELSE 0

\* max(peaks, key=...): the first entry with the largest key
BasePeak(peaks) ==
    LET k == CHOOSE a \in 1..Len(peaks) :
                /\ \A b \in 1..Len(peaks) : PeakKey(peaks[b]) <= PeakKey(peaks[a])
                /\ \A b \in 1..(a - 1) : PeakKey(peaks[b]) < PeakKey(peaks[a])
    IN  peaks[k]

\* rt if rt else 0.0
RtOrZero(sp) == IF sp.has_rt THEN sp.rt ELSE 0

\* the entries of an MS2 peak list that have an intensity
WithIntensity(peaks) == SelectSeq(peaks, LAMBDA p : Len(p) > 1)

\* max(p[1] for p in peaks if len(p) > 1), for a non-empty selection
MaxIntensity(peaks) ==
    LET w == WithIntensity(peaks)
    IN  w[CHOOSE a \in 1..Len(w) : \A b \in 1..Len(w) : w[b][2] <= w[a][2]][2]

\* p[1] >= max(0.01 * max_intensity, max_intensity / 50.0)
AboveThreshold(x, max_intensity) == 100 * x >= max_intensity /\ 50 * x >= max_intensity

\* filtered_peaks
FilteredPeaks(peaks) ==
    SelectSeq(peaks, LAMBDA p : Len(p) > 1 /\ AboveThreshold(p[2], MaxIntensity(peaks)))

\* variant of the test of the precursor search: a later feature at the same
\* distance replaces the earlier one
CloserOrEqual(diff, st) ==
    (st.best = NoFeature \/ diff <= st.min_diff) /\ diff < MzMatchTolerance

\* if diff < min_diff and diff < mz_tolerance (min_diff is inf until a feature is taken)
Closer(diff, st) ==
    (st.best = NoFeature \/ diff < st.min_diff) /\ diff < MzMatchTolerance

\* variant: blank features take part in the search
SearchedAll(feat) == TRUE

\* if not feat.get('is_blank', False)
Searched(feat) == ~feat.is_blank

\* the loop of lines 222-227 over feats[k..], from the state st = [best, min_diff]
RECURSIVE SearchFrom(_, _, _, _)
SearchFrom(feats, precursor_mz, k, st) ==
    IF k > Len(feats) THEN st
    ELSE LET diff == Abs(feats[k].mz - precursor_mz)
             st2 == IF Searched(feats[k]) /\ Closer(diff, st)
                    THEN [best |-> feats[k].fid, min_diff |-> diff]
                    ELSE st
         IN  SearchFrom(feats, precursor_mz, k + 1, st2)

\* best_feature after the search
BestFeature(feats, precursor_mz) ==
    SearchFrom(feats, precursor_mz, 1, [best |-> NoFeature, min_diff |-> 0]).best

\* f"feature_{mzml_path.stem}_{feature_counter:04d}"
Ms1FeatureId(n) == <<"ms1", n>>

\* variant of the MS2 identity: the format of the MS1 identities
Ms2FeatureIdAsMs1(n) == <<"ms1", n>>

\* f"feature_{mzml_path.stem}_ms2_{ms2_count:04d}"
Ms2FeatureId(n) == <<"ms2", n>>

\* ms2_spectra[fid] = filtered_peaks
SetSpectrum(ms2, fid, peaks) ==
    [x \in DOMAIN ms2 \cup {fid} |-> IF x = fid THEN peaks ELSE ms2[x]]

\* what happens to one spectrum, given the feature table so far
Outcome(sp, feats, blank) ==
    IF sp.ms_level = 1 THEN
        IF sp.read = "raises" THEN "raise"
        ELSE IF sp.read = "none" \/ sp.peaks = <<>> THEN "ms1_skip"
        ELSE IF Len(BasePeak(sp.peaks)) >= 2 /\ BasePeak(sp.peaks)[2] > 0
             THEN "ms1_feature" ELSE "ms1_skip"
    ELSE IF sp.ms_level = 2 THEN
        IF sp.probe = "raises" \/ sp.probe = "none" THEN "ms2_skip"
        ELSE IF sp.read = "raises" THEN "raise"
        ELSE IF sp.read = "none" \/ sp.peaks = <<>> THEN "ms2_skip"
        ELSE IF WithIntensity(sp.peaks) = <<>> THEN "raise"
        ELSE IF FilteredPeaks(sp.peaks) = <<>> THEN "ms2_skip"
        ELSE IF BestFeature(feats, sp.precursor) # NoFeature THEN "attach"
        ELSE IF ~blank THEN "synthesize"
        ELSE "discard"
    ELSE "other"

MaxRun == 3             \* most spectra in one run

Ms1(has_rt, rt, read, peaks) ==
    [ms_level |-> 1, has_rt |-> has_rt, rt |-> rt, probe |-> "none", precursor |-> 0,
     read |-> read, peaks |-> peaks]

Ms2(probe, precursor, read, peaks) ==
    [ms_level |-> 2, has_rt |-> TRUE, rt |-> 2, probe |-> probe, precursor |-> precursor,
     read |-> read, peaks |-> peaks]

\* the spectra a run is drawn from
SpectrumKinds ==
    { Ms1(TRUE, 1, "value", <<<<15000, 2>>, <<20000, 5>>, <<25000, 5>>>>),
      Ms1(FALSE, 0, "value", <<<<20010, 3>>>>),
      Ms1(TRUE, 1, "value", <<<<20000>>, <<21000, 0>>>>),
      Ms1(TRUE, 1, "raises", <<>>),
      Ms2("value", 20005, "value", <<<<5000, 100>>, <<6000, 1>>, <<7000, 2>>>>),
      Ms2("value", 20010, "value", <<<<5000, 50>>>>),
      Ms2("value", 20012, "value", <<<<5000>>, <<8000, 7>>>>),
      Ms2("none", 0, "value", <<<<5000, 50>>>>),
      Ms2("raises", 0, "value", <<<<5000, 50>>>>),
      Ms2("value", 20005, "raises", <<>>),
      Ms2("value", 20005, "value", <<<<5000>>>>),
      Ms2("value", 20005, "value", <<>>),
      Ms2("value", 30000, "value", <<<<9000, 4>>>>),
      [ms_level |-> 0, has_rt |-> FALSE, rt |-> 0, probe |-> "none", precursor |-> 0,
       read |-> "none", peaks |-> <<>>] }

Runs == UNION {[1..n -> SpectrumKinds] : n \in 0..MaxRun}

\* lines 118-126: the tables are empty, the counters 0, the reader is opened
InitExtract ==
    /\ epc = "loop"
    /\ run \in Runs
    /\ is_blank \in BOOLEAN
    /\ pos = 0 /\ feature_counter = 0 /\ ms2_count = 0
    /\ cosIdle /\ netIdle /\ blIdle /\ smIdle

\* the spectrum the reader yields next
spectrum == run[pos + 1]

\* the loop takes a spectrum whose handling ends in outcome o
Takes(o) ==
    /\ epc = "loop"
    /\ pos < Len(run)
    /\ Outcome(spectrum, features, is_blank) = o
    /\ pos' = pos + 1

otherNetVars == <<pc, argv_num_nodes, args_num_nodes, call_num_nodes,
                  similarity_threshold, max_mz, num_nodes, feature_list, G,
                  selected_connected, selected_singletons, selected_nodes, network,
                  network_features, exported>>

exFrame == <<run, is_blank, cosVars, otherNetVars, blVars, smVars>>

\* lines 136-152: an MS1 spectrum gives a feature
ExMs1Feature ==
    /\ Takes("ms1_feature")
    /\ features' = Append(features,
                          [fid |-> Ms1FeatureId(feature_counter),
                           mz |-> BasePeak(spectrum.peaks)[1],
                           rt |-> RtOrZero(spectrum),
                           intensity |-> BasePeak(spectrum.peaks)[2],
                           is_blank |-> is_blank])
    /\ feature_counter' = feature_counter + 1
    /\ UNCHANGED <<epc, ms2_spectra, ms2_count>>
    /\ UNCHANGED exFrame

\* lines 136-142: an MS1 spectrum without peaks or without a positive base peak
ExMs1Skip ==
    /\ Takes("ms1_skip")
    /\ UNCHANGED <<epc, features, ms2_spectra, feature_counter, ms2_count>>
    /\ UNCHANGED exFrame

\* lines 129-154: a spectrum of another MS level
ExOtherLevel ==
    /\ Takes("other")
    /\ UNCHANGED <<epc, features, ms2_spectra, feature_counter, ms2_count>>
    /\ UNCHANGED exFrame

\* lines 196-215: the continue statements of the MS2 branch
ExMs2Skip ==
    /\ Takes("ms2_skip")
    /\ UNCHANGED <<epc, features, ms2_spectra, feature_counter, ms2_count>>
    /\ UNCHANGED exFrame

\* lines 229-232: the fragment list goes to the closest feature
ExMs2Attach ==
    /\ Takes("attach")
    /\ ms2_spectra' = SetSpectrum(ms2_spectra, BestFeature(features, spectrum.precursor),
                                  FilteredPeaks(spectrum.peaks))
    /\ ms2_count' = ms2_count + 1
    /\ UNCHANGED <<epc, features, feature_counter>>
    /\ UNCHANGED exFrame

\* lines 233-244: a feature is created for the MS2 spectrum
ExMs2Synthesize ==
    /\ Takes("synthesize")
    /\ LET filtered_peaks == FilteredPeaks(spectrum.peaks)
           feature_id == Ms2FeatureId(ms2_count)
       IN  /\ features' = Append(features,
                                 [fid |-> feature_id,
                                  mz |-> spectrum.precursor,
                                  rt |-> RtOrZero(spectrum),
                                  intensity |-> SumSeq(Intensities(filtered_peaks)),
                                  is_blank |-> is_blank])
           /\ ms2_spectra' = SetSpectrum(ms2_spectra, feature_id, filtered_peaks)
    /\ ms2_count' = ms2_count + 1
    /\ UNCHANGED <<epc, feature_counter>>
    /\ UNCHANGED exFrame

\* lines 229-233: no feature matches in a blank run
ExMs2Discard ==
    /\ Takes("discard")
    /\ UNCHANGED <<epc, features, ms2_spectra, feature_counter, ms2_count>>
    /\ UNCHANGED exFrame

\* lines 138, 204, 209 and 248-251: an exception leaves the loop
ExRaise ==
    /\ epc = "loop"
    /\ pos < Len(run)
    /\ Outcome(spectrum, features, is_blank) = "raise"
    /\ pos' = pos + 1
    /\ epc' = "except"
    /\ UNCHANGED <<features, ms2_spectra, feature_counter, ms2_count>>
    /\ UNCHANGED exFrame

\* line 253 after the handler of line 248
ExReturnAfterError ==
    /\ epc = "except"
    /\ epc' = "returned"
    /\ UNCHANGED <<features, ms2_spectra, pos, feature_counter, ms2_count>>
    /\ UNCHANGED exFrame

\* lines 246 and 253: the reader is exhausted
ExReturn ==
    /\ epc = "loop"
    /\ pos = Len(run)
    /\ epc' = "returned"
    /\ UNCHANGED <<features, ms2_spectra, pos, feature_counter, ms2_count>>
    /\ UNCHANGED exFrame

NextExtract ==
    \/ ExMs1Feature
    \/ ExMs1Skip
    \/ ExOtherLevel
    \/ ExMs2Skip
    \/ ExMs2Attach
    \/ ExMs2Synthesize
    \/ ExMs2Discard
    \/ ExRaise
    \/ ExReturnAfterError
    \/ ExReturn

SpecExtract == InitExtract /\ [][NextExtract]_vars

----------------------------------------------------------------------------
(* The similarity-matrix loops of create_network (lines 343-355), one pair *)
(* at a time.  The source visits the pairs (i, j), i < j, row by row; here  *)
(* the body of the inner loop may run for the pairs in any order, the row   *)
(* order being one of them.  Indices are 1-based.                           *)

MaxPool == 3            \* most features in a table whose pool is scored

\* np.zeros((n, n))
Zeros(n) == [a \in 1..n, b \in 1..n |-> ZeroScore]

\* variant of the two assignments: only the cell above the diagonal is written
WritePairUpperOnly(m, a, b, s) == [m EXCEPT ![a, b] = s]

\* similarity_matrix[i, j] = sim; similarity_matrix[j, i] = sim
WritePair(m, a, b, s) == [m EXCEPT ![a, b] = s, ![b, a] = s]

\* the pairs the double loop ranges over
AllPairs(n) == {pr \in (1..n) \X (1..n) : pr[1] < pr[2]}

\* tables of features that all have a fragment spectrum
ScoredKinds == {kd \in FeatureKinds : kd.spec # None}

MatrixTables == UNION {[1..n -> ScoredKinds] : n \in 1..MaxPool}

MatrixNumNodes == {1, 2, MinNumNodes}

\* create_network at line 345: the pool is chosen, the matrix is all zero
InitMatrix ==
    /\ mpc = "loops"
    /\ pc = "matrix"
    /\ \E kinds \in MatrixTables :
          /\ features = TableOf(kinds)
          /\ ms2_spectra = FragmentsOf(kinds)
    /\ call_num_nodes \in MatrixNumNodes
    /\ similarity_threshold = DefaultSimilarityThreshold
    /\ max_mz = DefaultMaxMz
    /\ LET fwm == FeaturesWithMs2(features, ms2_spectra, max_mz)
       IN  /\ fwm # <<>>
           /\ num_nodes = ClampNumNodes(call_num_nodes, Len(fwm))
           /\ feature_list = FeatureList(fwm, num_nodes)
           /\ network_features = fwm
    /\ similarity_matrix = Zeros(Len(feature_list))
    /\ scored = {}
    /\ argv_num_nodes = 0 /\ args_num_nodes = 0 /\ G = EmptyGraph
    /\ selected_connected = <<>> /\ selected_singletons = <<>>
    /\ selected_nodes = <<>> /\ network = NoNetwork /\ exported = FALSE
    /\ cosIdle /\ exIdle /\ blIdle

\* lines 351-355 for one pair that was not scored yet
ScorePair ==
    /\ mpc = "loops"
    /\ \E pr \in AllPairs(Len(feature_list)) \ scored :
          LET fid1 == feature_list[pr[1]]
              fid2 == feature_list[pr[2]]
              s == cosine_similarity_ms2(ms2_spectra[fid1], ms2_spectra[fid2],
                                         DefaultMzTolerance)
          IN  /\ similarity_matrix' = WritePair(similarity_matrix, pr[1], pr[2], s)
              /\ scored' = scored \cup {pr}
    /\ UNCHANGED <<mpc, cosVars, netVars, exVars, blVars>>

\* the loops are over
MatrixDone ==
    /\ mpc = "loops"
    /\ scored = AllPairs(Len(feature_list))
    /\ mpc' = "done"
    /\ UNCHANGED <<similarity_matrix, scored, cosVars, netVars, exVars, blVars>>

NextMatrix ==
    \/ ScorePair
    \/ MatrixDone

SpecMatrix == InitMatrix /\ [][NextMatrix]_vars

----------------------------------------------------------------------------
(* Properties of create_network and main, checked under Spec *)

\* create_network has returned (from a direct call or inside main)
Returned == pc \in {"returned", "returned_empty", "main_check", "main_exit", "main_done"}

\* the same, and it did not take an early return
Built == Returned /\ feature_list # <<>>

\* positions of the features that have a fragment spectrum and mz <= max_mz
Qualifying ==
    {k \in 1..Len(features) :
        features[k].fid \in DOMAIN ms2_spectra /\ features[k].mz <= max_mz}

InNetwork(a, b) == \E e \in network.edges : e.ends = {a, b}

\* C1: the returned network has at most min(N, P) nodes, P the number of
\* features with a fragment spectrum and mz <= max_mz, and both endpoints of
\* each of its edges are among its nodes.
C1_NodeBoundAndEdgeClosure ==
    Returned =>
        /\ Cardinality(network.nodes) <= Min(call_num_nodes, Cardinality(Qualifying))
        /\ \A e \in network.edges : e.ends \subseteq network.nodes

C1_Witness ==
    /\ pc = "returned"
    /\ Cardinality(network.nodes) = Min(call_num_nodes, Cardinality(Qualifying))
    /\ network.edges # {}
    /\ \E k \in 1..Len(G.edges) : ~InNetwork(G.edges[k].u, G.edges[k].v)

\* C2 as stated: with c = min(floor(N*0.7), number of connected pool
\* members) connected nodes selected, min(N - c, number of degree-0 pool
\* members) singletons are selected, in ascending-mz candidate order.
C2_Claim ==
    Built =>
        LET degree0 == SelectSeq(feature_list,
                                 LAMBDA x : x \notin SeqToSet(G.nodes) \/ Degree(G, x) = 0)
            c == Min(NumConnected(num_nodes), Len(feature_list) - Len(degree0))
        IN  /\ Len(selected_connected) = c
            /\ selected_singletons = Take(degree0, Min(num_nodes - c, Len(degree0)))

\* C3 as stated: exactly 3 features under max_mz, each with a fragment
\* spectrum, all pairwise similarities 0, threshold 0.7, 3 or more nodes
\* requested: the network has exactly 3 nodes and 0 edges.
C3_Claim ==
    ( /\ pc = "returned"
      /\ Len(features) = 3
      /\ Cardinality(Qualifying) = 3
      /\ \A a, b \in 1..3 :
            a < b => ScoreIsZero(cosine_similarity_ms2(ms2_spectra[features[a].fid],
                                                       ms2_spectra[features[b].fid],
                                                       DefaultMzTolerance))
      /\ similarity_threshold = DefaultSimilarityThreshold
      /\ call_num_nodes >= 3 )
    => /\ Cardinality(network.nodes) = 3
       /\ network.edges = {}

\* C4: when 0 < P < N, create_network replaces N by P before the candidate
\* pool and the quotas are computed: everything it returns equals what a
\* request for exactly P nodes returns, at most floor(P*0.7) nodes come from
\* the connected group, the others are singletons, at most P nodes in all.
C4_ClampToPool ==
    LET P == Cardinality(Qualifying)
    IN  (Returned /\ 0 < P /\ P < call_num_nodes) =>
            LET r == create_network(features, ms2_spectra, P, similarity_threshold, max_mz)
            IN  /\ num_nodes = P
                /\ feature_list = r.feature_list
                /\ selected_connected = r.selected_connected
                /\ selected_singletons = r.selected_singletons
                /\ network = r.network
                /\ network_features = r.network_features
                /\ Len(selected_connected) <= (7 * P) \div 10
                /\ \A k \in 1..Len(selected_connected) : Degree(G, selected_connected[k]) > 0
                /\ \A k \in 1..Len(selected_singletons) : Degree(G, selected_singletons[k]) = 0
                /\ network.nodes = SeqToSet(selected_connected) \cup SeqToSet(selected_singletons)
                /\ Cardinality(network.nodes) <= P

C4_Witness ==
    /\ pc = "returned"
    /\ call_num_nodes = 10
    /\ Cardinality(Qualifying) = 4
    /\ Len(selected_connected) = 2
    /\ Len(selected_singletons) = 2
    /\ Cardinality(network.nodes) = 4

\* two features of the table, both with the spectrum [(100.0,1000),(110.0,2000)]
BothSpecA(a, b) ==
    /\ a # b
    /\ a \in DOMAIN ms2_spectra /\ b \in DOMAIN ms2_spectra
    /\ ms2_spectra[a] = SpecA /\ ms2_spectra[b] = SpecA

ThresholdAtMostOne == similarity_threshold.num <= similarity_threshold.den

\* C5 as stated: for a table of two features whose spectra are both
\* [(100.0,1000),(110.0,2000)] and a threshold <= 1.0, the similarity is 1.0
\* and the returned network contains an edge between the two.
C5_Original ==
    ( /\ pc = "returned"
      /\ Len(features) = 2
      /\ Qualifying = {1, 2}
      /\ BothSpecA(features[1].fid, features[2].fid)
      /\ ThresholdAtMostOne
      /\ call_num_nodes >= 2 )
    => /\ ScoreIsOne(cosine_similarity_ms2(SpecA, SpecA, DefaultMzTolerance))
       /\ InNetwork(features[1].fid, features[2].fid)

\* C5 amended: the aligner matches both peak positions of the two identical
\* spectra and the similarity is 1.0; with a threshold <= 1.0 the thresholded
\* candidate graph has an edge of weight 1.0 between any two pool members with
\* that spectrum, and the returned network has it exactly when both are
\* selected.  For a table of just these two features one node is selected
\* (quota floor(2*0.7) = 1) and the returned network has no edge.
C5_IdenticalSpectraEdge ==
    (Built /\ ThresholdAtMostOne) =>
        /\ Align(SpecA, SpecA, DefaultMzTolerance).merged = Len(SpecA)
        /\ ScoreIsOne(cosine_similarity_ms2(SpecA, SpecA, DefaultMzTolerance))
        /\ \A a, b \in SeqToSet(feature_list) :
              BothSpecA(a, b) =>
                  /\ \E k \in 1..Len(G.edges) :
                        /\ {G.edges[k].u, G.edges[k].v} = {a, b}
                        /\ ScoreIsOne(G.edges[k].weight)
                  /\ InNetwork(a, b) <=> (a \in network.nodes /\ b \in network.nodes)
        /\ ( /\ Len(features) = 2
             /\ Qualifying = {1, 2}
             /\ BothSpecA(features[1].fid, features[2].fid)
             /\ call_num_nodes >= 2 )
           => (Cardinality(network.nodes) = 1 /\ network.edges = {})

C5_Witness ==
    /\ pc = "returned"
    /\ similarity_threshold.num = similarity_threshold.den
    /\ \E a, b \in SeqToSet(feature_list) : BothSpecA(a, b) /\ InNetwork(a, b)

\* the node count main passes on for a command-line value n
Clamped(n) == IF n < 10 THEN 10 ELSE IF n > 100 THEN 100 ELSE n

\* C6: main clamps the requested node count into [10, 100] before building
\* the network: a request below 10 gives the network of a request for 10, a
\* request above 100 that of a request for 100, a request inside the range is
\* passed unchanged.
C6_MainClampsNumNodes ==
    /\ pc = "main_network" => args_num_nodes = Clamped(argv_num_nodes)
    /\ pc \in {"main_check", "main_exit", "main_done"} =>
          LET r == create_network(features, ms2_spectra, Clamped(argv_num_nodes),
                                  similarity_threshold, max_mz)
          IN  /\ call_num_nodes = Clamped(argv_num_nodes)
              /\ network = r.network
              /\ network_features = r.network_features

C6_Witness ==
    /\ pc = "main_done"
    /\ argv_num_nodes > MaxNumNodes
    /\ Len(features) > MaxNumNodes
    /\ call_num_nodes = MaxNumNodes
    /\ network # create_network(features, ms2_spectra, argv_num_nodes,
                                similarity_threshold, max_mz).network

\* C13: the candidate pool consists of min(2*N', P) of the P features that
\* have a fragment spectrum and mz <= max_mz (N' = min(N, P)), no qualifying
\* feature left out of the pool has a smaller mz than a pool member, and
\* every node of the returned network is a pool member; so no node lacks a
\* fragment spectrum or has mz > max_mz.
C13_NodesFromCandidatePool ==
    Returned =>
        LET P == Cardinality(Qualifying)
            pool == SeqToSet(feature_list)
            inPool == {k \in Qualifying : features[k].fid \in pool}
        IN  /\ Len(feature_list) = Min(2 * Min(call_num_nodes, P), P)
            /\ Cardinality(pool) = Len(feature_list)
            /\ Cardinality(inPool) = Len(feature_list)
            /\ \A k \in inPool, m \in Qualifying \ inPool :
                  features[k].mz <= features[m].mz
            /\ network.nodes \subseteq pool
            /\ \A k \in 1..Len(features) :
                  features[k].fid \in network.nodes =>
                      /\ features[k].fid \in DOMAIN ms2_spectra
                      /\ features[k].mz <= max_mz

C13_Witness ==
    /\ pc = "returned"
    /\ Len(feature_list) < Cardinality(Qualifying)
    /\ Cardinality(Qualifying) < Len(features)
    /\ \E k \in Qualifying : features[k].fid \notin SeqToSet(feature_list)
                                /\ features[k].mz < max_mz
    /\ network.nodes # {}

\* C16 as stated: the connected pool members are ranked by descending degree
\* with members of equal degree in their ascending-mz candidate order, and
\* the selected connected nodes are the first of that ranking.
C16_Claim ==
    Built =>
        LET connected == SelectSeq(feature_list, LAMBDA x : Degree(G, x) > 0)
            ranked == SortByDegree(G, connected)
        IN  selected_connected = Take(ranked, Len(selected_connected))

\* C21: when create_network builds a network, the feature table it returns
\* holds exactly the input features that have a fragment spectrum and
\* mz <= max_mz (mz = max_mz included), each record unchanged and in table
\* order; it contains every node of the returned network and every pool
\* member.  On an early exit the returned table and network are both empty.
C21_ReturnedFeatureTable ==
    Returned =>
        IF Qualifying = {}
        THEN network_features = <<>> /\ network = NoNetwork
        ELSE /\ Len(network_features) = Cardinality(Qualifying)
             /\ \A k \in Qualifying :
                   \E n \in 1..Len(network_features) : network_features[n] = features[k]
             /\ \A n \in 1..Len(network_features) :
                   \E k \in Qualifying : network_features[n] = features[k]
             /\ \A a, b \in 1..Len(network_features) :
                   a < b => network_features[a].fid < network_features[b].fid
             /\ \A x \in network.nodes \cup SeqToSet(feature_list) :
                   \E n \in 1..Len(network_features) : network_features[n].fid = x

C21_Witness ==
    /\ pc = "returned"
    /\ Len(network_features) > Len(feature_list)
    /\ Len(feature_list) > Cardinality(network.nodes)
    /\ Len(network_features) < Len(features)
    /\ \E n \in 1..Len(network_features) : network_features[n].mz = max_mz

\* position of x in the candidate pool
PoolIndex(x) == CHOOSE k \in 1..Len(feature_list) : feature_list[k] = x

\* the score of two pool members, as the matrix loop computes it
NodeScore(a, b) ==
    IF PoolIndex(a) < PoolIndex(b)
    THEN cosine_similarity_ms2(ms2_spectra[a], ms2_spectra[b], DefaultMzTolerance)
    ELSE cosine_similarity_ms2(ms2_spectra[b], ms2_spectra[a], DefaultMzTolerance)

\* score >= similarity_threshold
AtOrAboveThreshold(sc) ==
    sc.num * sc.num * similarity_threshold.den * similarity_threshold.den
        >= similarity_threshold.num * similarity_threshold.num * sc.den2

\* C22: the returned network is the induced subgraph of the thresholded
\* candidate graph: two distinct nodes of it are joined by an edge exactly
\* when their similarity is >= similarity_threshold (equality included),
\* there is one such edge and its weight is that similarity, and every edge
\* joins two distinct nodes of the network.
C22_InducedSubgraph ==
    Built =>
        /\ \A a, b \in network.nodes :
              a # b =>
                  LET between == {e \in network.edges : e.ends = {a, b}}
                  IN  IF AtOrAboveThreshold(NodeScore(a, b))
                      THEN /\ Cardinality(between) = 1
                           /\ \A e \in between : e.weight = NodeScore(a, b)
                      ELSE between = {}
        /\ \A e \in network.edges :
              Cardinality(e.ends) = 2 /\ e.ends \subseteq network.nodes

C22_Witness ==
    /\ pc = "returned"
    /\ similarity_threshold.num = similarity_threshold.den
    /\ \E e \in network.edges : ScoreIsOne(e.weight)
    /\ \E a, b \in network.nodes :
          /\ a # b
          /\ NodeScore(a, b).num > 0
          /\ ~InNetwork(a, b)
    /\ \E k \in 1..Len(G.edges) : ~InNetwork(G.edges[k].u, G.edges[k].v)

\* C23: the selected connected nodes and the selected singletons have no
\* member in common and no repetition, together they are at most num_nodes
\* (at most the requested count), so the test of the trimming step is false
\* and the selected node list is selected_connected followed by
\* selected_singletons.
C23_TrimNeverTaken ==
    Built =>
        /\ SeqToSet(selected_connected) \cap SeqToSet(selected_singletons) = {}
        /\ Cardinality(SeqToSet(selected_connected)) = Len(selected_connected)
        /\ Cardinality(SeqToSet(selected_singletons)) = Len(selected_singletons)
        /\ Len(selected_connected) + Len(selected_singletons) <= num_nodes
        /\ num_nodes <= call_num_nodes
        /\ selected_nodes = selected_connected \o selected_singletons

C23_Witness ==
    /\ pc = "returned"
    /\ call_num_nodes = num_nodes
    /\ Len(feature_list) > num_nodes
    /\ Len(selected_connected) >= 2
    /\ Len(selected_singletons) >= 1
    /\ Len(selected_nodes) = num_nodes

\* main is running
InMain == pc \in {"main_validate", "main_network", "main_check", "main_exit", "main_done"}

\* main's call of create_network has returned
MainCalled == pc \in {"main_check", "main_exit", "main_done"}

\* no feature of the table has a fragment spectrum
NoFeatureWithMs2 == \A k \in 1..Len(features) : features[k].fid \notin DOMAIN ms2_spectra

\* some feature has a fragment spectrum, none of them with mz <= max_mz
NoFeatureUnderCeiling == ~NoFeatureWithMs2 /\ Qualifying = {}

\* a candidate pool was scored and no pair reached the threshold
NoEdgeAboveThreshold == MainCalled /\ Qualifying # {} /\ G.edges = <<>>

----------------------------------------------------------------------------
(* Properties of cosine_similarity_ms2, checked under SpecCos *)

AllZero(s) == \A k \in 1..Len(s) : s[k][2] = 0

Aligned == cpc \in {"norms", "divide"} \/ (cpc = "done" /\ ~EitherEmpty(spectrum1, spectrum2))

\* C7: cosine_similarity_ms2 is symmetric.  For sorted spectra and a
\* non-negative tolerance, the call on (spectrum1, spectrum2) has the dot
\* product of the call on (spectrum2, spectrum1) and its two norms swapped,
\* and returns the same similarity.
C7_Symmetric ==
    mz_tolerance >= 0 =>
        /\ cpc \in {"norms", "divide"} =>
              LET al == Align(spectrum2, spectrum1, mz_tolerance)
                  v1 == Intensities(al.a1)
                  v2 == Intensities(al.a2)
              IN  /\ dot_product = Dot(v1, v2)
                  /\ norm1_sq = NormSq(v2)
                  /\ norm2_sq = NormSq(v1)
        /\ cpc = "done" =>
              sim = cosine_similarity_ms2(spectrum2, spectrum1, mz_tolerance)

C7_Witness ==
    /\ cpc = "done"
    /\ mz_tolerance >= 0
    /\ Len(spectrum1) # Len(spectrum2)
    /\ merged > 0
    /\ norm1_sq # norm2_sq
    /\ sim.num > 0
    /\ ~ScoreIsOne(sim)

\* C8: the call returns exactly 0.0 when either spectrum is empty or either
\* intensity vector is all zero, and the division is never reached with a
\* zero denominator.
C8_ZeroAndNoDivisionByZero ==
    /\ (cpc = "done" /\ (EitherEmpty(spectrum1, spectrum2)
                          \/ AllZero(spectrum1) \/ AllZero(spectrum2)))
          => sim = ZeroScore
    /\ cpc = "divide" => norm1_sq * norm2_sq # 0

C8_Witness ==
    /\ cpc = "done"
    /\ ~EitherEmpty(spectrum1, spectrum2)
    /\ ~AllZero(spectrum1)
    /\ AllZero(spectrum2)
    /\ sim = ZeroScore

\* C9 as stated: for every fragment spectrum A (default tolerance),
\* cosine_similarity_ms2(A, A) equals 1.0.
C9_Original ==
    (cpc = "done" /\ spectrum1 = spectrum2 /\ mz_tolerance = DefaultMzTolerance)
        => ScoreIsOne(sim)

\* C9 amended: for every non-empty fragment spectrum A that has a non-zero
\* intensity, and a non-negative tolerance, aligning A with itself merges
\* every position (no zero-padded position), the two aligned lists are equal
\* and the similarity is 1.0; for an empty or all-zero A it is 0.0.
C9_SelfSimilarity ==
    (spectrum1 = spectrum2 /\ mz_tolerance >= 0) =>
        /\ Aligned =>
              /\ merged = Len(spectrum1)
              /\ Len(aligned1) = Len(spectrum1)
              /\ aligned1 = aligned2
        /\ cpc \in {"norms", "divide"} =>
              dot_product * dot_product = norm1_sq * norm2_sq
        /\ cpc = "done" =>
              IF spectrum1 = <<>> \/ AllZero(spectrum1)
              THEN sim = ZeroScore
              ELSE ScoreIsOne(sim)

C9_Witness ==
    /\ cpc = "done"
    /\ spectrum1 = spectrum2
    /\ Len(spectrum1) = MaxLen
    /\ mz_tolerance = 0
    /\ ~AllZero(spectrum1)
    /\ ScoreIsOne(sim)

\* C10: the two aligned lists have the same length at every step of the
\* alignment, and for non-empty spectra the final length L satisfies
\* max(len(A), len(B)) <= L <= len(A) + len(B) and
\* L = len(A) + len(B) - (number of merged positions).
C10_AlignedLengths ==
    /\ Len(aligned1) = Len(aligned2)
    /\ Len(aligned1) = i + j - merged
    /\ Aligned =>
          /\ Len(aligned1) = Len(spectrum1) + Len(spectrum2) - merged
          /\ Len(aligned1) >= Max(Len(spectrum1), Len(spectrum2))
          /\ Len(aligned1) <= Len(spectrum1) + Len(spectrum2)

C10_Witness ==
    /\ cpc = "norms"
    /\ merged > 0
    /\ Len(aligned1) > Max(Len(spectrum1), Len(spectrum2))
    /\ Len(aligned1) < Len(spectrum1) + Len(spectrum2)

----------------------------------------------------------------------------
(* Properties of blank_subtraction, checked under SpecBlank *)

\* the sample feature with this fid is in the returned table
Retained(fid) == \E k \in 1..Len(filtered) : filtered[k].fid = fid

\* blank feature b has the m/z and retention time of sample feature f, and a
\* positive intensity
IdenticalBlank(b, f) == b.mz = f.mz /\ b.rt = f.rt /\ b.intensity > 0

\* f.intensity / b.intensity < intensity_ratio_threshold
BelowThreshold(f, b) ==
    f.intensity * intensity_ratio_threshold.den < intensity_ratio_threshold.num * b.intensity

\* blank feature b is within 0.01 m/z of f and within 0.1 min of it (or one
\* of the two retention times is 0)
NearBlank(b, f) ==
    /\ Abs(b.mz - f.mz) < 2
    /\ (b.rt = 0 \/ f.rt = 0 \/ Abs(b.rt - f.rt) < 2)

\* C11 as stated: a sample feature with the m/z and RT of a blank feature b of
\* positive intensity is removed if its ratio to b is below the threshold and
\* retained if the ratio is at or above it, whatever else the blank holds.
C11_Original ==
    bpc = "returned" =>
        \A fk \in 1..Len(sample_features), bk \in 1..Len(blank_features) :
            LET f == sample_features[fk]
                b == blank_features[bk]
            IN  IdenticalBlank(b, f) =>
                    IF BelowThreshold(f, b) THEN ~Retained(f.fid) ELSE Retained(f.fid)

\* C11 amended: such a sample feature is removed if its ratio to b is below
\* the threshold; if the ratio is at or above the threshold it is retained
\* exactly when no other blank feature within the tolerances (positive
\* intensity) gives a ratio below the threshold, in particular when b is the
\* only blank feature within the tolerances.
C11_IdenticalBlankFeature ==
    bpc = "returned" =>
        \A fk \in 1..Len(sample_features), bk \in 1..Len(blank_features) :
            LET f == sample_features[fk]
                b == blank_features[bk]
                others == {x \in 1..Len(blank_features) :
                              /\ x # bk
                              /\ NearBlank(blank_features[x], f)
                              /\ blank_features[x].intensity > 0
                              /\ BelowThreshold(f, blank_features[x])}
            IN  IdenticalBlank(b, f) =>
                    IF BelowThreshold(f, b) THEN ~Retained(f.fid)
                    ELSE Retained(f.fid) <=> others = {}

C11_Witness ==
    /\ bpc = "returned"
    /\ Len(blank_features) = 1
    /\ \E fk \in 1..Len(sample_features) :
          /\ IdenticalBlank(blank_features[1], sample_features[fk])
          /\ sample_features[fk].intensity * intensity_ratio_threshold.den
                = intensity_ratio_threshold.num * blank_features[1].intensity
          /\ Retained(sample_features[fk].fid)
    /\ \E fk \in 1..Len(sample_features) :
          /\ IdenticalBlank(blank_features[1], sample_features[fk])
          /\ BelowThreshold(sample_features[fk], blank_features[1])
          /\ ~Retained(sample_features[fk].fid)

\* blank feature b removes sample feature f
Removes(b, f) == NearBlank(b, f) /\ b.intensity > 0 /\ BelowThreshold(f, b)

\* the permutations of 1..n
Perms(n) == {p \in [1..n -> 1..n] : \A a, b \in 1..n : a # b => p[a] # p[b]}

\* C20: a sample feature is removed if and only if some blank feature is
\* within 0.01 m/z of it, within 0.1 min (or one of the two retention times
\* is 0), has intensity > 0 and gives a ratio below the threshold.  A near
\* blank feature that fails the intensity test does not end the scan, so the
\* returned table is the same for every order of the blank table, and it is
\* the same without the blank features of intensity <= 0.
C20_RemovedIffSomeBlankRemoves ==
    /\ bpc # "idle" =>
          /\ \A k \in 1..bpos :
                Retained(sample_features[k].fid) <=>
                    ~(\E m \in 1..Len(blank_features) :
                          Removes(blank_features[m], sample_features[k]))
          /\ \A k \in (bpos + 1)..Len(sample_features) : ~Retained(sample_features[k].fid)
          /\ Len(filtered) + removed = bpos
    /\ bpc = "returned" =>
          /\ bpos = Len(sample_features)
          /\ \A p \in Perms(Len(blank_features)) :
                filtered = blank_subtraction(sample_features,
                                             [k \in 1..Len(blank_features) |-> blank_features[p[k]]],
                                             intensity_ratio_threshold)
          /\ filtered = blank_subtraction(sample_features,
                                          SelectSeq(blank_features, LAMBDA b : b.intensity > 0),
                                          intensity_ratio_threshold)

C20_Witness ==
    /\ bpc = "returned"
    /\ Len(blank_features) = 2
    /\ \E k \in 1..Len(sample_features) :
          /\ NearBlank(blank_features[1], sample_features[k])
          /\ blank_features[1].intensity > 0
          /\ ~Removes(blank_features[1], sample_features[k])
          /\ Removes(blank_features[2], sample_features[k])
          /\ blank_features[2].rt = 0
          /\ sample_features[k].rt # 0
          /\ ~Retained(sample_features[k].fid)

----------------------------------------------------------------------------
(* Properties of extract_features_from_mzml, checked under SpecExtract *)

\* an MS1 spectrum with a readable peak list and a positive base peak
WellFormedMs1(sp) ==
    /\ sp.ms_level = 1
    /\ sp.read = "value"
    /\ sp.peaks # <<>>
    /\ Len(BasePeak(sp.peaks)) >= 2
    /\ BasePeak(sp.peaks)[2] > 0

\* number of well-formed MS1 spectra before stream position m
Ms1Before(m) == Cardinality({k \in 1..(m - 1) : WellFormedMs1(run[k])})

\* C14 as stated: a malformed or unreadable spectrum is skipped and the
\* later spectra of the run are still processed: when the extraction
\* returns, every spectrum of the run was taken from the reader and handled,
\* and each well-formed MS1 spectrum has its feature in the table.
C14_Claim ==
    epc = "returned" =>
        \A m \in 1..Len(run) :
            WellFormedMs1(run[m]) =>
                \E n \in 1..Len(features) :
                    /\ features[n].fid = <<"ms1", Ms1Before(m)>>
                    /\ features[n].mz = BasePeak(run[m].peaks)[1]

----------------------------------------------------------------------------
(* Properties of the similarity-matrix loops, checked under SpecMatrix *)

\* the score of pool positions a < b
PairScore(a, b) ==
    cosine_similarity_ms2(ms2_spectra[feature_list[a]], ms2_spectra[feature_list[b]],
                          DefaultMzTolerance)

\* C15: whatever the order in which the pairs are scored, the matrix is a
\* function of the set of pairs scored so far: the diagonal is 0, a scored
\* pair {a, b} has its score in both cells [a, b] and [b, a], every other
\* cell still holds 0; so the matrix is symmetric at every step, and once all
\* pairs are done it is the matrix the row-by-row loops produce.
C15_MatrixOrderIndependent ==
    mpc # "idle" =>
        LET n == Len(feature_list)
        IN  /\ DOMAIN similarity_matrix = (1..n) \X (1..n)
            /\ \A a, b \in 1..n :
                  /\ similarity_matrix[a, b] = similarity_matrix[b, a]
                  /\ a = b => similarity_matrix[a, b] = ZeroScore
                  /\ a < b => similarity_matrix[a, b] =
                                  IF <<a, b>> \in scored THEN PairScore(a, b) ELSE ZeroScore
            /\ mpc = "done" =>
                  /\ scored = {pr \in (1..n) \X (1..n) : pr[1] < pr[2]}
                  /\ similarity_matrix = SimilarityMatrix(feature_list, ms2_spectra)

C15_Witness ==
    /\ mpc = "loops"
    /\ Len(feature_list) = 3
    /\ scored = {<<2, 3>>}
    /\ similarity_matrix[3, 2].num > 0
    /\ PairScore(1, 2).num > 0
    /\ similarity_matrix[1, 2] = ZeroScore

\* the spectrum taken next is an MS2 spectrum that reaches the precursor search
ReachesSearch(sp) ==
    /\ sp.ms_level = 2
    /\ sp.probe = "value"
    /\ sp.read = "value"
    /\ \E k \in 1..Len(sp.peaks) : Len(sp.peaks[k]) > 1

\* positions of the non-blank features strictly within 0.1 of m/z x
Within(x) ==
    {k \in 1..Len(features) : ~features[k].is_blank /\ Abs(features[k].mz - x) < 10}

\* the earliest-created among the closest of them
Closest(x) ==
    CHOOSE k \in Within(x) :
        \A m \in Within(x) :
            \/ Abs(features[k].mz - x) < Abs(features[m].mz - x)
            \/ (Abs(features[k].mz - x) = Abs(features[m].mz - x) /\ k <= m)

\* the fragment lists of the features that exist before the step are unchanged,
\* except for the feature at position k (k = 0: no exception)
OthersKeepSpectra(k) ==
    \A m \in 1..Len(features) :
        m # k =>
            /\ features[m].fid \in DOMAIN ms2_spectra' <=> features[m].fid \in DOMAIN ms2_spectra
            /\ features[m].fid \in DOMAIN ms2_spectra =>
                  ms2_spectra'[features[m].fid] = ms2_spectra[features[m].fid]

\* C17: in a sample run, an MS2 spectrum that reaches the precursor search is
\* attached to the feature with the smallest |mz - precursor_mz| among the
\* features created so far, if that difference is strictly below 0.1, the
\* earliest-created one among equally close features; no other feature's
\* fragment list changes, and when no feature is within 0.1 no existing
\* feature receives the spectrum.
C17_ClosestFeatureWithinTolerance ==
    [][ (epc = "loop" /\ pos' = pos + 1 /\ epc' = "loop" /\ ~is_blank
            /\ ReachesSearch(run[pos + 1]))
        => LET x == run[pos + 1].precursor
           IN  IF Within(x) # {}
               THEN /\ features' = features
                    /\ features[Closest(x)].fid \in DOMAIN ms2_spectra'
                    /\ ms2_spectra'[features[Closest(x)].fid]
                          = FilteredPeaks(run[pos + 1].peaks)
                    /\ OthersKeepSpectra(Closest(x))
               ELSE OthersKeepSpectra(0) ]_vars

C17_Witness ==
    /\ ~is_blank
    /\ Len(features) = 2
    /\ features[1].mz = 20000 /\ features[2].mz = 20010
    /\ <<"ms1", 0>> \in DOMAIN ms2_spectra
    /\ <<"ms1", 1>> \notin DOMAIN ms2_spectra
    /\ ms2_spectra[<<"ms1", 0>>] = <<<<5000, 100>>, <<7000, 2>>>>

\* C18 as stated: the precursor search considers only features created from
\* MS1 base peaks, so no step of the extraction changes the fragment list of
\* a feature that was synthesized from an MS2 precursor, and an MS2 spectrum
\* without a match among the MS1 features yields a new feature of its own.
C18_Claim ==
    [][ /\ \A m \in 1..Len(features) :
              features[m].fid[1] = "ms2" =>
                  /\ features[m].fid \in DOMAIN ms2_spectra'
                  /\ ms2_spectra'[features[m].fid] = ms2_spectra[features[m].fid]
        /\ ( /\ epc = "loop" /\ pos' = pos + 1 /\ epc' = "loop" /\ ~is_blank
             /\ ReachesSearch(run[pos + 1])
             /\ \A m \in Within(run[pos + 1].precursor) : features[m].fid[1] = "ms2" )
           => Len(features') = Len(features) + 1 ]_vars

\* C19: in a run flagged blank, at every point of the extraction every
\* feature of the table was created from an MS1 base peak and carries the
\* blank flag, and the fragment table is empty.
C19_BlankRunHasNoFragments ==
    (epc # "idle" /\ is_blank) =>
        /\ \A k \in 1..Len(features) :
              features[k].fid[1] = "ms1" /\ features[k].is_blank
        /\ Len(features) = feature_counter
        /\ DOMAIN ms2_spectra = {}
        /\ ms2_count = 0

C19_Witness ==
    /\ is_blank
    /\ epc = "returned"
    /\ pos = Len(run)
    /\ pos >= 2
    /\ WellFormedMs1(run[1])
    /\ ReachesSearch(run[2])
    /\ Len(features) >= 1
    /\ Abs(run[2].precursor - features[1].mz) < 10
    /\ DOMAIN ms2_spectra = {}

\* C24: every step of the extraction keeps the features already in the table,
\* unchanged and in place, adds at most one feature, gives an added feature
\* an identity no feature of the table has, and leaves every key of the
\* fragment table a key of the feature table.
C24_FeaturesAreStable ==
    [][ /\ Len(features) <= Len(features')
        /\ Len(features') <= Len(features) + 1
        /\ \A k \in 1..Len(features) : features'[k] = features[k]
        /\ \A k \in (Len(features) + 1)..Len(features') :
              \A m \in 1..Len(features) : features'[k].fid # features[m].fid
        /\ \A x \in DOMAIN ms2_spectra' :
              \E k \in 1..Len(features') : features'[k].fid = x ]_vars

C24_Witness ==
    /\ ~is_blank
    /\ feature_counter = 1
    /\ ms2_count = 2
    /\ Len(features) = 2
    /\ features[1].fid = <<"ms1", 0>>
    /\ features[2].fid = <<"ms2", 1>>
    /\ DOMAIN ms2_spectra = {<<"ms1", 0>>, <<"ms2", 1>>}

====
